---- MODULE Spec2Model ----
(***************************************************************************)
(* CrunchNAT (src/crunchnat.py): the stateless mapping of internal IPv4    *)
(* addresses to external (address, port list) pairs, with its three        *)
(* algorithms simple, stripe and secure, the RSA helper functions and the  *)
(* two self-checks.                                                        *)
(*                                                                         *)
(* Python values are modelled as follows.                                  *)
(*   - an IPv4 address is its integer value;                               *)
(*   - an IPv4 network is [network_address, prefixlen];                    *)
(*   - the outcome of a call is a record whose field "raised" is "none"    *)
(*     when the call returned and names the exception otherwise;           *)
(*   - a port sequence is a record that is either a Python range           *)
(*     (start, stop, step), as simple and stripe return it, or a           *)
(*     materialised list, as secure returns it.                            *)
(* Python integers are unbounded, so no arithmetic here wraps around.      *)
(***************************************************************************)
EXTENDS Integers, Sequences, FiniteSets, TLC

VARIABLES
    args,      \* the arguments the constructor (or gen_rsa_methods) is called with
    facade,    \* the CrunchNAT object: its attributes after __init__
    rsa,       \* the (encrypt, decrypt) pair gen_rsa_methods returned
    call,      \* the last call made: its name and arguments
    ret        \* what that call returned or raised

vars == <<args, facade, rsa, call, ret>>

----------------------------------------------------------------------------
(* Module constants of src/crunchnat.py.                                   *)

MAX_CRUNCH_FACTOR == 8
DEFAULT_P == 251
DEFAULT_Q == 257
DEFAULT_E == 19
PORTS_PER_IP == 65536
RESERVED_PORTS == 1024
USABLE_PORTS == PORTS_PER_IP - RESERVED_PORTS

(* Bounds of the model.                                                    *)

\* external networks have at most 2^MaxExtBits addresses
MaxExtBits == 1
\* internal networks have at most 2^MaxIntBits addresses
MaxIntBits == 8
\* the longest port list a secure facade of the model materialises
MaxListLen == 300
\* gen_rsa_methods alone is explored for all primes p, q <= MaxPrime ...
MaxPrime == 10
\* ... and all exponents e <= MaxExp, besides the default keys
MaxExp == 7
\* egcd and modinv are called with all a, m <= MaxArg
MaxArg == 24
\* check_bijection is called with None and with every count up to MaxCount
MaxCount == 1

----------------------------------------------------------------------------
(* Exceptions.                                                             *)

NONE == "none"
ZeroDivisionError == "ZeroDivisionError"
IndexError == "IndexError"
ValueError == "ValueError"
ExcessiveCrunch == "Exception: Excessive Crunch Factor"
InvalidKeys == "Exception: Invalid keys: p*q > USABLE_PORTS"
NoInverse == "Exception: modular inverse does not exist"

----------------------------------------------------------------------------
(* Port sequences: Python's range objects and lists.                       *)

NoPorts == [kind |-> "none", start |-> 0, stop |-> 0, step |-> 1, items |-> <<>>]

\* range(start, stop, step), step > 0
Range(start, stop, step) ==
    [kind |-> "range", start |-> start, stop |-> stop, step |-> step, items |-> <<>>]

List(items) ==
    [kind |-> "list", start |-> 0, stop |-> 0, step |-> 1, items |-> items]

\* len(range): the number of start + i*step below stop
RangeLen(r) ==
    IF r.stop <= r.start THEN 0 ELSE (r.stop - r.start + r.step - 1) \div r.step

\* range[:k]: again a range, of the first k elements (all when there are fewer)
RangeSlice(r, k) ==
    LET len == RangeLen(r)
        m == IF k < len THEN k ELSE len
    IN Range(r.start, r.start + m * r.step, r.step)

PortsLen(ports) ==
    IF ports.kind = "range" THEN RangeLen(ports) ELSE Len(ports.items)

\* ports[i], i counted from 0 as in Python
PortAt(ports, i) ==
    IF ports.kind = "range" THEN ports.start + i * ports.step ELSE ports.items[i + 1]

PortSet(ports) == {PortAt(ports, i) : i \in 0..(PortsLen(ports) - 1)}

\* range == range, list == list: equal as sequences
PortsEqual(a, b) ==
    /\ PortsLen(a) = PortsLen(b)
    /\ \A i \in 0..(PortsLen(a) - 1) : PortAt(a, i) = PortAt(b, i)

----------------------------------------------------------------------------
(* The ipaddress library, as far as CrunchNAT uses it.                     *)

Network(address, prefixlen) == [network_address |-> address, prefixlen |-> prefixlen]

num_addresses(net) == 2 ^ (32 - net.prefixlen)

broadcast_address(net) == net.network_address + num_addresses(net) - 1

\* ip_address(v) accepts the 32-bit values only
IsAddress(v) == v >= 0 /\ v \div 65536 < 65536

InNetwork(net, v) == net.network_address <= v /\ v <= broadcast_address(net)

\* network[n]: a negative n counts back from the broadcast address
GetItem(net, n) ==
    IF n >= 0
    THEN IF net.network_address + n > broadcast_address(net)
         THEN [raised |-> IndexError, address |-> 0]
         ELSE [raised |-> NONE, address |-> net.network_address + n]
    ELSE IF broadcast_address(net) + n + 1 < net.network_address
         THEN [raised |-> IndexError, address |-> 0]
         ELSE [raised |-> NONE, address |-> broadcast_address(net) + n + 1]

----------------------------------------------------------------------------
(* Modular arithmetic and the RSA methods.                                 *)

\* (a * b) % n for 0 <= a, b < 2^16, n > 0, by halves of a so that no
\* intermediate product leaves the 32-bit integers of TLC
MulMod(a, b, n) ==
    ((((a \div 256) * b) % n) * 256 + (a % 256) * b) % n

\* pow(base, exp, modulus) for exp >= 0, modulus > 0
RECURSIVE pow(_, _, _)
pow(base, exp, modulus) ==
    IF exp = 0 THEN 1 % modulus
    ELSE LET h == pow(base, exp \div 2, modulus)
             s == MulMod(h, h, modulus)
         IN IF exp % 2 = 1 THEN MulMod(s, base % modulus, modulus) ELSE s

\* egcd with the coefficients returned in the order the recursive call gave
RECURSIVE egcd_unswapped(_, _)
egcd_unswapped(a, b) ==
    IF a = 0 THEN <<b, 0, 1>>
    ELSE LET r == egcd_unswapped(b % a, a)
         IN <<r[1], r[2] - (b \div a) * r[3], r[3]>>

\* egcd(a, b) = (g, x, y)
RECURSIVE egcd(_, _)
egcd(a, b) ==
    IF a = 0 THEN <<b, 0, 1>>
    ELSE LET r == egcd(b % a, a)
         IN <<r[1], r[3] - (b \div a) * r[2], r[2]>>

modinv(a, m) ==
    LET r == egcd(a, m)
    IN IF r[1] # 1 THEN [raised |-> NoInverse, value |-> 0]
       ELSE IF m = 0 THEN [raised |-> ZeroDivisionError, value |-> 0]
       ELSE [raised |-> NONE, value |-> r[2] % m]

NoRsa == [made |-> FALSE, n |-> 0, e |-> 0, d |-> 0]

\* gen_rsa_methods with phi taken as (p - 1) * q
gen_rsa_methods_phi(p, q, e) ==
    LET n == p * q
        phi == (p - 1) * q
        d == modinv(e, phi)
    IN IF d.raised # NONE THEN [raised |-> d.raised, methods |-> NoRsa]
       ELSE [raised |-> NONE,
             methods |-> [made |-> TRUE, n |-> n, e |-> e, d |-> d.value]]

\* the pair of closures (encrypt, decrypt) is the triple (n, e, d) they close over
gen_rsa_methods(p, q, e) ==
    LET n == p * q
        phi == (p - 1) * (q - 1)
        d == modinv(e, phi)
    IN IF d.raised # NONE THEN [raised |-> d.raised, methods |-> NoRsa]
       ELSE [raised |-> NONE,
             methods |-> [made |-> TRUE, n |-> n, e |-> e, d |-> d.value]]

encrypt(m, x) == pow(x, m.e, m.n)

decrypt(m, x) == pow(x, m.d, m.n)

----------------------------------------------------------------------------
(* class CrunchNAT.                                                        *)

AttributeError == "AttributeError"

Algorithms == {"simple", "stripe", "secure"}

NoFacade(state, raised) ==
    [state |-> state, raised |-> raised,
     external_network |-> Network(0, 32), internal_network |-> Network(0, 32),
     crunch_factor |-> 0, algo |-> "", num_ports |-> 0]

\* __init__: the object and its encrypt/decrypt attributes, or the exception
CrunchNAT(a) ==
    LET external_network == Network(a.external_address, a.external_prefixlen)
        internal_network == Network(a.internal_address, a.internal_prefixlen)
        crunch_factor == external_network.prefixlen - internal_network.prefixlen
        self(num_ports) ==
            [state |-> "constructed", raised |-> NONE,
             external_network |-> external_network,
             internal_network |-> internal_network,
             crunch_factor |-> crunch_factor, algo |-> a.algo,
             num_ports |-> num_ports]
        failed(e) == [facade |-> NoFacade("failed", e), rsa |-> NoRsa]
    IN IF crunch_factor > MAX_CRUNCH_FACTOR THEN failed(ExcessiveCrunch)
       ELSE IF a.algo \notin Algorithms THEN failed(AttributeError)
       ELSE IF a.algo = "secure"
       THEN IF a.p * a.q > USABLE_PORTS THEN failed(InvalidKeys)
            ELSE LET g == gen_rsa_methods(a.p, a.q, a.e)
                 IN IF g.raised # NONE THEN failed(g.raised)
                    ELSE [facade |-> self(a.p * a.q), rsa |-> g.methods]
       ELSE [facade |-> self(USABLE_PORTS), rsa |-> NoRsa]

hosts_per_external(self) ==
    num_addresses(self.internal_network) \div num_addresses(self.external_network)

\* the property ports_per_host: a value, or ZeroDivisionError
ports_per_host(self) ==
    IF hosts_per_external(self) = 0
    THEN [raised |-> ZeroDivisionError, value |-> 0]
    ELSE [raised |-> NONE, value |-> self.num_ports \div hosts_per_external(self)]

NoRet ==
    [raised |-> NONE, address |-> 0, ports |-> NoPorts, flag |-> FALSE,
     value |-> 0, collisions |-> <<>>, triple |-> <<>>]

Raised(e) == [NoRet EXCEPT !.raised = e]

\* the address part all three forward methods share: the internal offset and
\* the external address, or the exception raised on the way
ForwardAddress(self, internal_address) ==
    LET internal_offset == internal_address - self.internal_network.network_address
    IN IF ~IsAddress(internal_address) THEN Raised(ValueError)
       ELSE IF hosts_per_external(self) = 0 THEN Raised(ZeroDivisionError)
       ELSE LET external_offset == internal_offset \div hosts_per_external(self)
                external_address == GetItem(self.external_network, external_offset)
            IN IF external_address.raised # NONE THEN Raised(external_address.raised)
               ELSE [NoRet EXCEPT !.address = external_address.address,
                                  !.value = internal_offset]

\* simple_forward with the port blocks starting at port 0
simple_forward_unreserved(self, internal_address) ==
    LET head == ForwardAddress(self, internal_address)
        internal_offset == head.value
        lo_port == ports_per_host(self).value
                   * (internal_offset % hosts_per_external(self))
        hi_port == lo_port + ports_per_host(self).value
    IN IF head.raised # NONE THEN head
       ELSE [NoRet EXCEPT !.address = head.address,
                          !.ports = Range(lo_port, hi_port, 1)]

simple_forward(self, internal_address) ==
    LET head == ForwardAddress(self, internal_address)
        internal_offset == head.value
        lo_port == RESERVED_PORTS
                   + ports_per_host(self).value
                     * (internal_offset % hosts_per_external(self))
        hi_port == lo_port + ports_per_host(self).value
    IN IF head.raised # NONE THEN head
       ELSE [NoRet EXCEPT !.address = head.address,
                          !.ports = Range(lo_port, hi_port, 1)]

\* stripe_forward with every stripe starting at RESERVED_PORTS
stripe_forward_shared_start(self, internal_address) ==
    LET head == ForwardAddress(self, internal_address)
        ports == RangeSlice(Range(RESERVED_PORTS, PORTS_PER_IP,
                                  hosts_per_external(self)),
                            ports_per_host(self).value)
    IN IF head.raised # NONE THEN head
       ELSE [NoRet EXCEPT !.address = head.address, !.ports = ports]

\* stripe_forward with the stripe cut one port short
stripe_forward_short_slice(self, internal_address) ==
    LET head == ForwardAddress(self, internal_address)
        internal_offset == head.value
        ports == RangeSlice(Range(RESERVED_PORTS
                                  + (internal_offset % hosts_per_external(self)),
                                  PORTS_PER_IP,
                                  hosts_per_external(self)),
                            ports_per_host(self).value - 1)
    IN IF head.raised # NONE THEN head
       ELSE [NoRet EXCEPT !.address = head.address, !.ports = ports]

stripe_forward(self, internal_address) ==
    LET head == ForwardAddress(self, internal_address)
        internal_offset == head.value
        ports == RangeSlice(Range(RESERVED_PORTS
                                  + (internal_offset % hosts_per_external(self)),
                                  PORTS_PER_IP,
                                  hosts_per_external(self)),
                            ports_per_host(self).value)
    IN IF head.raised # NONE THEN head
       ELSE [NoRet EXCEPT !.address = head.address, !.ports = ports]

\* secure_forward without the sort
secure_forward_unsorted(self, methods, internal_address) ==
    LET head == ForwardAddress(self, internal_address)
        internal_offset == head.value
        port_offset == internal_offset % hosts_per_external(self)
        pph == ports_per_host(self).value
        func(x) == RESERVED_PORTS + encrypt(methods, x)
        mapped == [i \in 1..pph |-> func(port_offset * pph + i - 1)]
    IN IF head.raised # NONE THEN head
       ELSE [NoRet EXCEPT !.address = head.address, !.ports = List(mapped)]

secure_forward(self, methods, internal_address) ==
    LET head == ForwardAddress(self, internal_address)
        internal_offset == head.value
        port_offset == internal_offset % hosts_per_external(self)
        pph == ports_per_host(self).value
        func(x) == RESERVED_PORTS + encrypt(methods, x)
        mapped == [i \in 1..pph |-> func(port_offset * pph + i - 1)]
        ports == SortSeq(mapped, LAMBDA x, y : x < y)
    IN IF head.raised # NONE THEN head
       ELSE [NoRet EXCEPT !.address = head.address, !.ports = List(ports)]

\* the tail all three reverse methods share: internal_network[offset1 + offset2]
ReverseAddress(self, external_address, internal_offset2) ==
    LET external_offset == external_address - self.external_network.network_address
        internal_offset1 == external_offset * hosts_per_external(self)
        internal_address == GetItem(self.internal_network,
                                    internal_offset1 + internal_offset2)
    IN IF internal_address.raised # NONE THEN Raised(internal_address.raised)
       ELSE [NoRet EXCEPT !.address = internal_address.address]

simple_reverse(self, external_address, port) ==
    LET pph == ports_per_host(self)
    IN IF ~IsAddress(external_address) THEN Raised(ValueError)
       ELSE IF pph.raised # NONE THEN Raised(pph.raised)
       ELSE IF pph.value = 0 THEN Raised(ZeroDivisionError)
       ELSE ReverseAddress(self, external_address,
                           (port - RESERVED_PORTS) \div pph.value)

\* stripe_reverse with the quotient in the place of the remainder
stripe_reverse_quotient(self, external_address, port) ==
    IF ~IsAddress(external_address) THEN Raised(ValueError)
    ELSE IF hosts_per_external(self) = 0 THEN Raised(ZeroDivisionError)
    ELSE ReverseAddress(self, external_address,
                        (port - RESERVED_PORTS) \div hosts_per_external(self))

stripe_reverse(self, external_address, port) ==
    IF ~IsAddress(external_address) THEN Raised(ValueError)
    ELSE IF hosts_per_external(self) = 0 THEN Raised(ZeroDivisionError)
    ELSE ReverseAddress(self, external_address,
                        (port - RESERVED_PORTS) % hosts_per_external(self))

\* secure_reverse with encrypt in the place of decrypt
secure_reverse_encrypt(self, methods, external_address, port) ==
    LET pph == ports_per_host(self)
    IN IF ~IsAddress(external_address) THEN Raised(ValueError)
       ELSE IF pph.raised # NONE THEN Raised(pph.raised)
       ELSE IF pph.value = 0 THEN Raised(ZeroDivisionError)
       ELSE ReverseAddress(self, external_address,
                           encrypt(methods, port - RESERVED_PORTS) \div pph.value)

secure_reverse(self, methods, external_address, port) ==
    LET pph == ports_per_host(self)
    IN IF ~IsAddress(external_address) THEN Raised(ValueError)
       ELSE IF pph.raised # NONE THEN Raised(pph.raised)
       ELSE IF pph.value = 0 THEN Raised(ZeroDivisionError)
       ELSE ReverseAddress(self, external_address,
                           decrypt(methods, port - RESERVED_PORTS) \div pph.value)

\* self.forward and self.reverse, bound by name in __init__
forward(self, methods, internal_address) ==
    CASE self.algo = "simple" -> simple_forward(self, internal_address)
      [] self.algo = "stripe" -> stripe_forward(self, internal_address)
      [] self.algo = "secure" -> secure_forward(self, methods, internal_address)

reverse(self, methods, external_address, port) ==
    CASE self.algo = "simple" -> simple_reverse(self, external_address, port)
      [] self.algo = "stripe" -> stripe_reverse(self, external_address, port)
      [] self.algo = "secure" -> secure_reverse(self, methods, external_address, port)

----------------------------------------------------------------------------
(* The self-checks.                                                        *)

\* str(address): the dotted quad
Str(address) ==
    <<address \div 16777216, (address \div 65536) % 256,
      (address \div 256) % 256, address % 256>>

\* one pass of the loop body of check_forward_collisions, on the state
\* (exception raised, ports seen, collisions found) the loop carries
CollisionsStep(self, methods, offset, st) ==
    LET internal_address == GetItem(self.internal_network, offset)
        fwd == forward(self, methods, internal_address.address)
        ports == PortSet(fwd.ports)
    IN IF st.raised # NONE THEN st
       ELSE IF internal_address.raised # NONE
       THEN [st EXCEPT !.raised = internal_address.raised]
       ELSE IF fwd.raised # NONE THEN [st EXCEPT !.raised = fwd.raised]
       ELSE [raised |-> NONE,
             all_ports |-> st.all_ports \cup ports,
             collisions |-> IF st.all_ports \cap ports # {}
                            THEN Append(st.collisions, Str(internal_address.address))
                            ELSE st.collisions]

\* for offset in range(lo, hi), in order; the range is halved so that the
\* evaluation nests only logarithmically deep; an exception ends the loop
RECURSIVE CollisionsLoop(_, _, _, _, _)
CollisionsLoop(self, methods, lo, hi, st) ==
    IF hi <= lo THEN st
    ELSE IF hi = lo + 1 THEN CollisionsStep(self, methods, lo, st)
    ELSE LET mid == (lo + hi) \div 2
             done == CollisionsLoop(self, methods, lo, mid, st)
         IN IF done.raised # NONE THEN done
            ELSE CollisionsLoop(self, methods, mid, hi, done)

\* what the passes lo..hi-1 of that loop see: whether one raises, the union of
\* their port sets, its size, and the sum of the sizes of the port sets
RECURSIVE PortsSeen(_, _, _, _)
PortsSeen(self, methods, lo, hi) ==
    IF hi <= lo THEN [raised |-> FALSE, total |-> 0, size |-> 0, all_ports |-> {}]
    ELSE IF hi = lo + 1
    THEN LET internal_address == GetItem(self.internal_network, lo)
             fwd == forward(self, methods, internal_address.address)
             ports == PortSet(fwd.ports)
         IN [raised |-> internal_address.raised # NONE \/ fwd.raised # NONE,
             total |-> Cardinality(ports), size |-> Cardinality(ports),
             all_ports |-> ports]
    ELSE LET mid == (lo + hi) \div 2
             a == PortsSeen(self, methods, lo, mid)
             b == PortsSeen(self, methods, mid, hi)
             both == a.all_ports \cup b.all_ports
         IN [raised |-> a.raised \/ b.raised,
             total |-> a.total + b.total, size |-> Cardinality(both),
             all_ports |-> both]

\* When no pass raises and the port sets of the passes are pairwise disjoint
\* (their sizes add up to the size of their union), no pass finds
\* all_ports.intersection(ports) non-empty and the list returned is empty;
\* otherwise the loop is followed pass by pass.
check_forward_collisions(self, methods) ==
    LET seen == PortsSeen(self, methods, 0, hosts_per_external(self))
        st == CollisionsLoop(self, methods, 0, hosts_per_external(self),
                             [raised |-> NONE, all_ports |-> {}, collisions |-> <<>>])
    IN IF ~seen.raised /\ seen.size = seen.total THEN NoRet
       ELSE IF st.raised # NONE THEN Raised(st.raised)
       ELSE [NoRet EXCEPT !.collisions = st.collisions]

\* the inner loop of check_bijection over the ports of one internal address,
\* as (index, exception of reverse, address reverse returned): the first
\* exception a reverse raises, or whether every port maps back
BijectionPorts(self, methods, internal_address, fwd) ==
    LET back(i) == LET r == reverse(self, methods, fwd.address, PortAt(fwd.ports, i))
                   IN <<i, r.raised, r.address>>
        passes == {back(i) : i \in 0..(PortsLen(fwd.ports) - 1)}
        raising == {t \in passes : t[2] # NONE}
        first == CHOOSE t \in raising : \A u \in raising : t[1] <= u[1]
    IN IF raising # {} THEN Raised(first[2])
       ELSE [NoRet EXCEPT !.flag = \A t \in passes : t[3] = internal_address]

\* one pass of the outer loop of check_bijection: the exception it raises, or
\* whether it leaves `bijective` alone
BijectionPass(self, methods, offset) ==
    LET internal_address == GetItem(self.internal_network, offset)
        fwd == forward(self, methods, internal_address.address)
    IN IF internal_address.raised # NONE THEN Raised(internal_address.raised)
       ELSE IF fwd.raised # NONE THEN Raised(fwd.raised)
       ELSE BijectionPorts(self, methods, internal_address.address, fwd)

\* for offset in range(0, count): the first exception raised ends the loop;
\* otherwise bijective is False as soon as one pass found a port that does
\* not map back
BijectionLoop(self, methods, count) ==
    LET passes == {<<offset, BijectionPass(self, methods, offset)>> :
                      offset \in 0..(count - 1)}
        raising == {t \in passes : t[2].raised # NONE}
        first == CHOOSE t \in raising : \A u \in raising : t[1] <= u[1]
    IN IF raising # {} THEN first[2]
       ELSE [NoRet EXCEPT !.flag = \A t \in passes : t[2].flag]

\* count = 0 stands for None as well: `if not count`
check_bijection(self, methods, count) ==
    BijectionLoop(self, methods,
                  IF count = 0 THEN hosts_per_external(self) ELSE count)

----------------------------------------------------------------------------
(* The inputs the model draws.                                             *)

\* 100.64.0.0 and 10.0.0.0
ExternalBase == 100 * 16777216 + 64 * 65536
InternalBase == 10 * 16777216

ExtPrefixes == (32 - MaxExtBits)..32

\* /8 is the documented example of an excessive crunch factor
IntPrefixes == {8} \cup (32 - MaxIntBits)..32

\* (p, q, e): the default keys, two pairs of distinct primes, a prime squared,
\* an exponent with no inverse and a product above USABLE_PORTS
KeyChoices ==
    {<<DEFAULT_P, DEFAULT_Q, DEFAULT_E>>, <<3, 5, 3>>, <<13, 17, 5>>,
     <<5, 5, 3>>, <<3, 5, 2>>, <<257, 263, 19>>}

Args(ep, ip, algo, key) ==
    [external_address |-> ExternalBase, external_prefixlen |-> ep,
     internal_address |-> InternalBase, internal_prefixlen |-> ip,
     algo |-> algo, p |-> key[1], q |-> key[2], e |-> key[3]]

\* the length of the port lists a secure facade of these arguments returns
ListLen(ep, ip, key) ==
    IF ep - ip \in 0..MAX_CRUNCH_FACTOR /\ key[1] * key[2] <= USABLE_PORTS
    THEN (key[1] * key[2]) \div (2 ^ (ep - ip))
    ELSE 0

Constructions ==
    {Args(ep, ip, algo, <<DEFAULT_P, DEFAULT_Q, DEFAULT_E>>) :
        ep \in ExtPrefixes, ip \in IntPrefixes, algo \in {"simple", "stripe", "naive"}}
    \cup
    {Args(s[1], s[2], "secure", s[3]) :
        s \in {t \in ExtPrefixes \X IntPrefixes \X KeyChoices :
                  ListLen(t[1], t[2], t[3]) <= MaxListLen}}

\* the facades whose self-checks are run: one external address and every
\* internal prefix, and networks of more external addresses with a crunch
\* factor of 1 and of -1
ValidatedShapes ==
    {<<32, ip>> : ip \in IntPrefixes}
    \cup {t \in ExtPrefixes \X IntPrefixes : t[1] < 32 /\ t[1] - t[2] \in {-1, 1}}

ValidatedConstructions ==
    {a \in Constructions :
        <<a.external_prefixlen, a.internal_prefixlen>> \in ValidatedShapes}

IsPrime(k) == k >= 2 /\ \A j \in 2..(k - 1) : k % j # 0

RsaKeys ==
    {<<DEFAULT_P, DEFAULT_Q, DEFAULT_E>>}
    \cup {k \in (1..MaxPrime) \X (1..MaxPrime) \X (1..MaxExp) :
             IsPrime(k[1]) /\ IsPrime(k[2])}

NoCall ==
    [op |-> "none", address |-> 0, port |-> 0, count |-> 0, x |-> 0, a |-> 0, m |-> 0]

\* the addresses forward is called with: the internal network, and the
\* addresses around it
ForwardInputs(self) ==
    LET net == self.internal_network.network_address
        size == num_addresses(self.internal_network)
    IN (net - size - 1)..(net - size) \cup (net - 1)..(net + size + 1)

ReverseAddresses(self) ==
    LET net == self.external_network.network_address
        size == num_addresses(self.external_network)
    IN (net - size - 1)..(net + size)

\* the counts check_bijection is called with: None (as 0), the first hosts,
\* and the whole internal network where None does not walk it already
BijectionCounts(self) ==
    (0..MaxCount)
    \cup {n \in {num_addresses(self.internal_network)} : n # hosts_per_external(self)}

\* the ports reverse is called with: the ends of the reserved, the allocated
\* and the usable ranges, and the ports of test.py
ReversePorts(self) ==
    LET hpe == hosts_per_external(self)
        allocated == IF hpe = 0 THEN 0 ELSE hpe * (self.num_ports \div hpe)
    IN {0, RESERVED_PORTS - 1, RESERVED_PORTS, RESERVED_PORTS + 1,
        RESERVED_PORTS + allocated - 1, RESERVED_PORTS + allocated,
        RESERVED_PORTS + self.num_ports - 1, RESERVED_PORTS + self.num_ports,
        PORTS_PER_IP - 1, 1290, 2318, 3600}

----------------------------------------------------------------------------
(* The facade: construction, then any calls in any order, one at a time.   *)
(* call.op is "none" while no call is being made.                          *)

Init ==
    /\ args \in Constructions
    /\ facade = NoFacade("unconstructed", NONE)
    /\ rsa = NoRsa
    /\ call = NoCall
    /\ ret = NoRet

Construct ==
    /\ facade.state = "unconstructed"
    /\ LET made == CrunchNAT(args)
       IN /\ facade' = made.facade
          /\ rsa' = made.rsa
          /\ call' = [NoCall EXCEPT !.op = "__init__"]
          /\ ret' = Raised(made.facade.raised)
    /\ UNCHANGED args

Forward(a) ==
    /\ facade.state = "constructed"
    /\ call.op = "none"
    /\ call' = [NoCall EXCEPT !.op = "forward", !.address = a]
    /\ ret' = forward(facade, rsa, a)
    /\ UNCHANGED <<args, facade, rsa>>

Reverse(x, port) ==
    /\ facade.state = "constructed"
    /\ call.op = "none"
    /\ call' = [NoCall EXCEPT !.op = "reverse", !.address = x, !.port = port]
    /\ ret' = reverse(facade, rsa, x, port)
    /\ UNCHANGED <<args, facade, rsa>>

HostsPerExternal ==
    /\ facade.state = "constructed"
    /\ call.op = "none"
    /\ call' = [NoCall EXCEPT !.op = "hosts_per_external"]
    /\ ret' = [NoRet EXCEPT !.value = hosts_per_external(facade)]
    /\ UNCHANGED <<args, facade, rsa>>

PortsPerHost ==
    /\ facade.state = "constructed"
    /\ call.op = "none"
    /\ call' = [NoCall EXCEPT !.op = "ports_per_host"]
    /\ ret' = [NoRet EXCEPT !.raised = ports_per_host(facade).raised,
                            !.value = ports_per_host(facade).value]
    /\ UNCHANGED <<args, facade, rsa>>

CheckForwardCollisions ==
    /\ facade.state = "constructed"
    /\ call.op = "none"
    /\ call' = [NoCall EXCEPT !.op = "check_forward_collisions"]
    /\ ret' = check_forward_collisions(facade, rsa)
    /\ UNCHANGED <<args, facade, rsa>>

CheckBijection(count) ==
    /\ facade.state = "constructed"
    /\ call.op = "none"
    /\ call' = [NoCall EXCEPT !.op = "check_bijection", !.count = count]
    /\ ret' = check_bijection(facade, rsa, count)
    /\ UNCHANGED <<args, facade, rsa>>

\* the caller has the result; the next call can be made
Return ==
    /\ call.op # "none"
    /\ facade.state = "constructed" \/ rsa.made
    /\ call' = NoCall
    /\ ret' = NoRet
    /\ UNCHANGED <<args, facade, rsa>>

Next ==
    \/ Construct
    \/ \E a \in ForwardInputs(facade) : Forward(a)
    \/ \E x \in ReverseAddresses(facade), port \in ReversePorts(facade) : Reverse(x, port)
    \/ HostsPerExternal
    \/ PortsPerHost
    \/ Return

Spec == Init /\ [][Next]_vars

----------------------------------------------------------------------------
(* The self-checks of a facade: construction, then check_forward_collisions *)
(* and check_bijection.                                                     *)

InitValidate ==
    /\ args \in ValidatedConstructions
    /\ facade = NoFacade("unconstructed", NONE)
    /\ rsa = NoRsa
    /\ call = NoCall
    /\ ret = NoRet

NextValidate ==
    \/ Construct
    \/ CheckForwardCollisions
    \/ \E count \in BijectionCounts(facade) : CheckBijection(count)
    \/ Return

SpecValidate == InitValidate /\ [][NextValidate]_vars

----------------------------------------------------------------------------
(* gen_rsa_methods on its own: the pair is made, then x is encrypted and   *)
(* the result decrypted.                                                   *)

\* the x encrypt is called with: its domain [0, n) and the values around it
RsaInputs(methods) == (-1)..(methods.n + 1)

InitRsa ==
    /\ args \in {Args(32, 32, "", k) : k \in RsaKeys}
    /\ facade = NoFacade("unconstructed", NONE)
    /\ rsa = NoRsa
    /\ call = NoCall
    /\ ret = NoRet

GenRsaMethods ==
    /\ call.op = "none"
    /\ ~rsa.made
    /\ LET made == gen_rsa_methods(args.p, args.q, args.e)
       IN /\ rsa' = made.methods
          /\ ret' = Raised(made.raised)
    /\ call' = [NoCall EXCEPT !.op = "gen_rsa_methods"]
    /\ UNCHANGED <<args, facade>>

Encrypt ==
    /\ rsa.made
    /\ call.op = "none"
    /\ \E x \in RsaInputs(rsa) :
          /\ call' = [NoCall EXCEPT !.op = "encrypt", !.x = x]
          /\ ret' = [NoRet EXCEPT !.value = encrypt(rsa, x)]
    /\ UNCHANGED <<args, facade, rsa>>

\* decrypt, applied to what encrypt(x) just returned
Decrypt ==
    /\ call.op = "encrypt"
    /\ call' = [call EXCEPT !.op = "decrypt"]
    /\ ret' = [NoRet EXCEPT !.value = decrypt(rsa, ret.value)]
    /\ UNCHANGED <<args, facade, rsa>>

NextRsa ==
    \/ GenRsaMethods
    \/ Encrypt
    \/ Decrypt
    \/ Return

SpecRsa == InitRsa /\ [][NextRsa]_vars

----------------------------------------------------------------------------
(* egcd and modinv on their own, and the secure construction that relies   *)
(* on them.                                                                *)

InitModInv ==
    /\ args \in {Args(32, 32, "secure", k) : k \in KeyChoices \cup RsaKeys}
    /\ facade = NoFacade("unconstructed", NONE)
    /\ rsa = NoRsa
    /\ call = NoCall
    /\ ret = NoRet

\* the module functions need no facade: they are called before __init__
Egcd ==
    /\ facade.state = "unconstructed"
    /\ call.op = "none"
    /\ \E a \in 0..MaxArg, m \in 0..MaxArg :
          /\ a + m > 0
          /\ call' = [NoCall EXCEPT !.op = "egcd", !.a = a, !.m = m]
          /\ ret' = [NoRet EXCEPT !.triple = egcd(a, m)]
    /\ UNCHANGED <<args, facade, rsa>>

Modinv ==
    /\ facade.state = "unconstructed"
    /\ call.op = "none"
    /\ \E a \in 0..MaxArg, m \in 0..MaxArg :
          /\ a + m > 0
          /\ call' = [NoCall EXCEPT !.op = "modinv", !.a = a, !.m = m]
          /\ ret' = [NoRet EXCEPT !.raised = modinv(a, m).raised,
                                  !.value = modinv(a, m).value]
    /\ UNCHANGED <<args, facade, rsa>>

\* the caller of egcd or modinv has the result
ReturnModInv ==
    /\ call.op \in {"egcd", "modinv"}
    /\ call' = NoCall
    /\ ret' = NoRet
    /\ UNCHANGED <<args, facade, rsa>>

NextModInv ==
    \/ Egcd
    \/ Modinv
    \/ ReturnModInv
    \/ Construct

SpecModInv == InitModInv /\ [][NextModInv]_vars

----------------------------------------------------------------------------
(* The properties of the specification, checked on the model.              *)

\* C1: forward then reverse is the identity. For simple, stripe and secure
\* (keys of two distinct primes, the default keys among them) and a crunch
\* factor in 0..8, check_bijection(count) raises nothing and returns True for
\* every count up to the size of the internal network: every port of
\* forward(a) maps back to a.
C1_RoundTrip ==
    (/\ call.op = "check_bijection"
     /\ facade.crunch_factor \in 0..MAX_CRUNCH_FACTOR
     /\ call.count <= num_addresses(facade.internal_network)
     /\ facade.algo = "secure" => args.p # args.q)
    => ret.raised = NONE /\ ret.flag

C1_Witness ==
    /\ call.op = "check_bijection"
    /\ call.count = 0
    /\ facade.algo = "secure"
    /\ <<args.p, args.q, args.e>> = <<DEFAULT_P, DEFAULT_Q, DEFAULT_E>>
    /\ facade.crunch_factor = MAX_CRUNCH_FACTOR
    /\ ret.raised = NONE
    /\ ret.flag

\* C2 as stated: for every constructed facade, the port sets forward returns
\* for the hosts_per_external addresses of one external address are pairwise
\* disjoint, their union has hosts_per_external * ports_per_host elements and
\* check_forward_collisions() returns the empty list.
C2_NoCollisions_AnyKeys ==
    call.op = "check_forward_collisions"
    => /\ ret.raised = NONE
       /\ ret.collisions = <<>>
       /\ LET seen == PortsSeen(facade, rsa, 0, hosts_per_external(facade))
          IN /\ seen.size = seen.total
             /\ seen.size = hosts_per_external(facade) * ports_per_host(facade).value

\* C2, amended: the same for every constructed facade whose secure keys p and
\* q are two distinct primes (no port at all when hosts_per_external is 0).
C2_NoCollisions ==
    (/\ call.op = "check_forward_collisions"
     /\ facade.algo = "secure"
        => IsPrime(args.p) /\ IsPrime(args.q) /\ args.p # args.q)
    => /\ ret.raised = NONE
       /\ ret.collisions = <<>>
       /\ LET seen == PortsSeen(facade, rsa, 0, hosts_per_external(facade))
          IN /\ ~seen.raised
             /\ seen.size = seen.total
             /\ seen.size = hosts_per_external(facade) * ports_per_host(facade).value

C2_Witness ==
    /\ call.op = "check_forward_collisions"
    /\ facade.algo = "secure"
    /\ <<args.p, args.q>> = <<DEFAULT_P, DEFAULT_Q>>
    /\ hosts_per_external(facade) = 2 ^ MAX_CRUNCH_FACTOR
    /\ ret.collisions = <<>>
    /\ PortsSeen(facade, rsa, 0, hosts_per_external(facade)).size
       = DEFAULT_P * 2 ^ MAX_CRUNCH_FACTOR

\* C3: forward(a), for a in internal_network, returns for every facade of a
\* crunch factor in 0..8, and the port sequence it returns has exactly
\* ports_per_host elements; the stripe sequence is not shorter than that
\* before it is truncated.
C3_PortSetLength ==
    (call.op = "forward" /\ InNetwork(facade.internal_network, call.address))
    => /\ facade.crunch_factor >= 0 => ret.raised = NONE
       /\ ret.raised = NONE
          => /\ ports_per_host(facade).raised = NONE
             /\ PortsLen(ret.ports) = ports_per_host(facade).value
             /\ facade.algo = "stripe"
                => RangeLen(Range(RESERVED_PORTS
                                  + ((call.address
                                      - facade.internal_network.network_address)
                                     % hosts_per_external(facade)),
                                  PORTS_PER_IP, hosts_per_external(facade)))
                   >= ports_per_host(facade).value

C3_Witness ==
    /\ call.op = "forward"
    /\ facade.algo = "stripe"
    /\ facade.crunch_factor = MAX_CRUNCH_FACTOR
    /\ call.address = broadcast_address(facade.internal_network)
    /\ ret.raised = NONE
    /\ PortsLen(ret.ports) = USABLE_PORTS \div 2 ^ MAX_CRUNCH_FACTOR

\* C4: every port forward(a) returns, for a in internal_network, is at least
\* RESERVED_PORTS and below PORTS_PER_IP, and for secure below
\* RESERVED_PORTS + p * q.
C4_PortRange ==
    (/\ call.op = "forward"
     /\ InNetwork(facade.internal_network, call.address)
     /\ ret.raised = NONE)
    => \A P \in PortSet(ret.ports) :
          /\ RESERVED_PORTS <= P
          /\ P < PORTS_PER_IP
          /\ facade.algo = "secure" => P < RESERVED_PORTS + args.p * args.q

C4_Witness ==
    /\ call.op = "forward"
    /\ facade.algo = "simple"
    /\ facade.crunch_factor = MAX_CRUNCH_FACTOR
    /\ call.address = broadcast_address(facade.internal_network)
    /\ ret.raised = NONE
    /\ PortAt(ret.ports, 0) >= RESERVED_PORTS
    /\ PortAt(ret.ports, PortsLen(ret.ports) - 1) = PORTS_PER_IP - 1

\* C5: construction fails whenever external.prefix - internal.prefix is above
\* 8 or negative, and does not fail on this check when it is in 0..8.
C5_RejectsBadCrunch ==
    call.op = "__init__"
    => LET crunch_factor == args.external_prefixlen - args.internal_prefixlen
       IN /\ crunch_factor \notin 0..MAX_CRUNCH_FACTOR => facade.state = "failed"
          /\ crunch_factor \in 0..MAX_CRUNCH_FACTOR => facade.raised # ExcessiveCrunch

\* C6: forward(a) fails for every address a outside internal_network, and
\* reverse(x, P) fails for every address x outside external_network (stated
\* for the facades with hosts_per_external >= 1 and ports_per_host >= 1, and
\* for the ports P forward returns on them).
C6_OutOfRange ==
    (/\ facade.state = "constructed"
     /\ hosts_per_external(facade) >= 1
     /\ ports_per_host(facade).value >= 1)
    => /\ (/\ call.op = "forward"
           /\ ~InNetwork(facade.internal_network, call.address))
          => ret.raised # NONE
       /\ (/\ call.op = "reverse"
           /\ ~InNetwork(facade.external_network, call.address)
           /\ call.port \in RESERVED_PORTS..(RESERVED_PORTS + facade.num_ports - 1))
          => ret.raised # NONE

\* C7: reverse(x, P) fails for every port P below RESERVED_PORTS, and for
\* secure also for every P with P - RESERVED_PORTS >= n = p * q (stated for
\* the facades with hosts_per_external >= 1 and ports_per_host >= 1, and for
\* the addresses x of external_network).
C7_UnmappedPort ==
    (/\ facade.state = "constructed"
     /\ hosts_per_external(facade) >= 1
     /\ ports_per_host(facade).value >= 1
     /\ call.op = "reverse"
     /\ InNetwork(facade.external_network, call.address)
     /\ \/ call.port < RESERVED_PORTS
        \/ facade.algo = "secure" /\ call.port - RESERVED_PORTS >= rsa.n)
    => ret.raised # NONE

\* C8: a facade whose num_ports div hosts_per_external is 0 is not
\* constructed (stated for the facades with hosts_per_external > 0, which have
\* a quotient): every constructed facade has ports_per_host >= 1 and its
\* forward and reverse calls do not divide by zero.
C8_RejectsDegenerate ==
    (facade.state = "constructed" /\ hosts_per_external(facade) > 0)
    => /\ ports_per_host(facade).value >= 1
       /\ call.op \in {"forward", "reverse"} => ret.raised # ZeroDivisionError

\* C9: every constructed facade has hosts_per_external = 2^crunch_factor,
\* num_ports <= 64512 (p * q for secure, 64512 otherwise) and ports_per_host
\* = num_ports div hosts_per_external, with ports_per_host *
\* hosts_per_external <= num_ports; external /24 with internal /16, that is a
\* crunch factor of 8, gives 256 hosts and 252 ports (251 for the default keys).
C9_DerivedParameters ==
    facade.state = "constructed"
    => /\ facade.crunch_factor >= 0
       /\ hosts_per_external(facade) = 2 ^ facade.crunch_factor
       /\ facade.num_ports <= USABLE_PORTS
       /\ facade.num_ports
          = IF facade.algo = "secure" THEN args.p * args.q ELSE USABLE_PORTS
       /\ ports_per_host(facade).raised = NONE
       /\ ports_per_host(facade).value
          = facade.num_ports \div hosts_per_external(facade)
       /\ ports_per_host(facade).value * hosts_per_external(facade)
          <= facade.num_ports
       /\ (/\ facade.crunch_factor = 8
           /\ <<args.p, args.q>> = <<DEFAULT_P, DEFAULT_Q>>)
          => /\ hosts_per_external(facade) = 256
             /\ ports_per_host(facade).value
                = IF facade.algo = "secure" THEN 251 ELSE 252

\* C10 as stated: for the pair gen_rsa_methods(p, q, e) makes from primes p,
\* q with gcd(e, (p-1)(q-1)) = 1, encrypt maps [0, n) into [0, n) and
\* decrypt(encrypt(x)) = x for every x in [0, n).
C10_RsaRoundTrip_AnyPrimes ==
    (/\ call.op \in {"encrypt", "decrypt"}
     /\ IsPrime(args.p) /\ IsPrime(args.q)
     /\ call.x \in 0..(rsa.n - 1))
    => IF call.op = "encrypt" THEN ret.value \in 0..(rsa.n - 1)
       ELSE ret.value = call.x

\* C10, amended: the same for two distinct primes p, q.
C10_RsaRoundTrip ==
    (/\ call.op \in {"encrypt", "decrypt"}
     /\ IsPrime(args.p) /\ IsPrime(args.q) /\ args.p # args.q
     /\ call.x \in 0..(rsa.n - 1))
    => IF call.op = "encrypt" THEN ret.value \in 0..(rsa.n - 1)
       ELSE ret.value = call.x

\* the default keys bring a multiple of p back: x = 2 * 251
C10_Witness ==
    /\ call.op = "decrypt"
    /\ <<args.p, args.q, args.e>> = <<DEFAULT_P, DEFAULT_Q, DEFAULT_E>>
    /\ call.x = 2 * DEFAULT_P
    /\ ret.value = call.x

\* C11 as stated: whenever forward returns for an address of
\* internal_network, with b = internal_offset mod hosts_per_external, the k-th of its ports_per_host ports is RESERVED_PORTS
\* + b * ports_per_host + k for simple and RESERVED_PORTS + b + k *
\* hosts_per_external for stripe, and for secure the ports are the values
\* RESERVED_PORTS + encrypt(i), b * ports_per_host <= i < (b + 1) *
\* ports_per_host, in ascending order and without duplicates.
C11_PortSequenceShape_AnyKeys ==
    (/\ call.op = "forward"
     /\ InNetwork(facade.internal_network, call.address)
     /\ ret.raised = NONE)
    => LET hpe == hosts_per_external(facade)
           pph == ports_per_host(facade).value
           b == (call.address - facade.internal_network.network_address) % hpe
           ks == 0..(PortsLen(ret.ports) - 1)
       IN /\ PortsLen(ret.ports) = pph
          /\ facade.algo = "simple"
             => \A k \in ks : PortAt(ret.ports, k) = RESERVED_PORTS + b * pph + k
          /\ facade.algo = "stripe"
             => \A k \in ks : PortAt(ret.ports, k) = RESERVED_PORTS + b + k * hpe
          /\ facade.algo = "secure"
             => /\ PortSet(ret.ports)
                   = {RESERVED_PORTS + encrypt(rsa, i) :
                         i \in (b * pph)..((b + 1) * pph - 1)}
                /\ \A k \in ks \ {0} : PortAt(ret.ports, k - 1) < PortAt(ret.ports, k)

\* C11, amended: the same whenever forward returns, the secure list being without duplicates when p and
\* q are two distinct primes and in ascending order for all keys.
C11_PortSequenceShape ==
    (call.op = "forward" /\ ret.raised = NONE)
    => LET hpe == hosts_per_external(facade)
           pph == ports_per_host(facade).value
           b == (call.address - facade.internal_network.network_address) % hpe
           ks == 0..(PortsLen(ret.ports) - 1)
       IN /\ PortsLen(ret.ports) = pph
          /\ facade.algo = "simple"
             => \A k \in ks : PortAt(ret.ports, k) = RESERVED_PORTS + b * pph + k
          /\ facade.algo = "stripe"
             => \A k \in ks : PortAt(ret.ports, k) = RESERVED_PORTS + b + k * hpe
          /\ facade.algo = "secure"
             => /\ PortSet(ret.ports)
                   = {RESERVED_PORTS + encrypt(rsa, i) :
                         i \in (b * pph)..((b + 1) * pph - 1)}
                /\ \A k \in ks \ {0} : PortAt(ret.ports, k - 1) <= PortAt(ret.ports, k)
                /\ (IsPrime(args.p) /\ IsPrime(args.q) /\ args.p # args.q)
                   => \A k \in ks \ {0} : PortAt(ret.ports, k - 1) < PortAt(ret.ports, k)

\* the default keys at a crunch factor of 8: 251 ascending ports of no
\* regular stride
C11_Witness ==
    /\ call.op = "forward"
    /\ facade.algo = "secure"
    /\ <<args.p, args.q, args.e>> = <<DEFAULT_P, DEFAULT_Q, DEFAULT_E>>
    /\ ret.raised = NONE
    /\ PortsLen(ret.ports) = DEFAULT_P
    /\ PortAt(ret.ports, 0) < PortAt(ret.ports, 1)
    /\ PortAt(ret.ports, 1) - PortAt(ret.ports, 0)
       # PortAt(ret.ports, 2) - PortAt(ret.ports, 1)

\* the greatest common divisor of a >= 0 and m >= 1, by its definition
C12_Gcd(a, m) ==
    LET common == {k \in 1..m : a % k = 0 /\ m % k = 0}
    IN CHOOSE g \in common : \A k \in common : k <= g

\* C12: for a >= 0 and m >= 1, egcd(a, m) returns (g, x, y) with a*x + m*y =
\* g = gcd(a, m); modinv(a, m) returns v in [0, m) with (a*v) mod m = 1 mod m
\* when gcd(a, m) = 1 and raises when it is not; and the secure construction
\* fails when e has no inverse modulo (p-1)(q-1).
C12_ModularInverse ==
    /\ (call.op = "egcd" /\ call.m >= 1)
       => /\ ret.triple[1] = C12_Gcd(call.a, call.m)
          /\ call.a * ret.triple[2] + call.m * ret.triple[3] = ret.triple[1]
    /\ (call.op = "modinv" /\ call.m >= 1)
       => IF C12_Gcd(call.a, call.m) = 1
          THEN /\ ret.raised = NONE
               /\ ret.value \in 0..(call.m - 1)
               /\ (call.a * ret.value) % call.m = 1 % call.m
          ELSE ret.raised = NoInverse
    /\ (/\ call.op = "__init__"
        /\ (args.p - 1) * (args.q - 1) >= 1
        /\ C12_Gcd(args.e, (args.p - 1) * (args.q - 1)) # 1)
       => facade.state = "failed"

\* 19 has the inverse 19 modulo 24, found through a negative coefficient
C12_Witness ==
    /\ call.op = "modinv"
    /\ call.a = 19
    /\ call.m = 24
    /\ ret.raised = NONE
    /\ ret.value = 19
    /\ egcd(call.a, call.m)[2] < 0

\* C13 as stated: for every address x of external_network and every port P
\* with RESERVED_PORTS <= P < RESERVED_PORTS + num_ports, reverse(x, P)
\* returns an address a of internal_network whose offset is within the
\* hosts_per_external hosts of x and for which forward(a) = (x, ports) with P
\* in ports (stated for the facades with hosts_per_external >= 1 and
\* ports_per_host >= 1 whose secure keys are two distinct primes).
C13_ReverseThenForward_AnyPort ==
    (/\ facade.state = "constructed"
     /\ hosts_per_external(facade) >= 1
     /\ ports_per_host(facade).value >= 1
     /\ facade.algo = "secure"
        => IsPrime(args.p) /\ IsPrime(args.q) /\ args.p # args.q
     /\ call.op = "reverse"
     /\ InNetwork(facade.external_network, call.address)
     /\ call.port \in RESERVED_PORTS..(RESERVED_PORTS + facade.num_ports - 1))
    => /\ ret.raised = NONE
       /\ InNetwork(facade.internal_network, ret.address)
       /\ (ret.address - facade.internal_network.network_address)
          - (call.address - facade.external_network.network_address)
            * hosts_per_external(facade)
          \in 0..(hosts_per_external(facade) - 1)
       /\ LET fwd == forward(facade, rsa, ret.address)
          IN /\ fwd.raised = NONE
             /\ fwd.address = call.address
             /\ call.port \in PortSet(fwd.ports)

\* C13, amended: the same for every constructed facade, secure keys being two
\* distinct primes, and the ports P = RESERVED_PORTS + j (for secure
\* RESERVED_PORTS + encrypt(j)) with 0 <= j < hosts_per_external *
\* ports_per_host, which are the ports forward hands out.
C13_ReverseThenForward ==
    (/\ facade.state = "constructed"
     /\ facade.algo = "secure"
        => IsPrime(args.p) /\ IsPrime(args.q) /\ args.p # args.q
     /\ call.op = "reverse"
     /\ InNetwork(facade.external_network, call.address)
     /\ call.port \in RESERVED_PORTS..(RESERVED_PORTS + facade.num_ports - 1)
     /\ (IF facade.algo = "secure" THEN decrypt(rsa, call.port - RESERVED_PORTS)
         ELSE call.port - RESERVED_PORTS)
        < hosts_per_external(facade) * ports_per_host(facade).value)
    => /\ ret.raised = NONE
       /\ InNetwork(facade.internal_network, ret.address)
       /\ (ret.address - facade.internal_network.network_address)
          - (call.address - facade.external_network.network_address)
            * hosts_per_external(facade)
          \in 0..(hosts_per_external(facade) - 1)
       /\ LET fwd == forward(facade, rsa, ret.address)
          IN /\ fwd.raised = NONE
             /\ fwd.address = call.address
             /\ call.port \in PortSet(fwd.ports)

\* the default keys, the last external address and a port a host other than
\* the first owns
C13_Witness ==
    /\ call.op = "reverse"
    /\ facade.algo = "secure"
    /\ <<args.p, args.q, args.e>> = <<DEFAULT_P, DEFAULT_Q, DEFAULT_E>>
    /\ call.address = broadcast_address(facade.external_network)
    /\ call.port = 3600
    /\ decrypt(rsa, call.port - RESERVED_PORTS)
       < hosts_per_external(facade) * ports_per_host(facade).value
    /\ ret.raised = NONE
    /\ ret.address # facade.internal_network.network_address
    /\ forward(facade, rsa, ret.address).address = call.address

====
